---- MODULE Spec2Model ----
(***************************************************************************)
(* Model of the EchoLearn voice assistant (optimized variant):             *)
(*   main_optimized.py        EchoLearnAssistant.process_question_async    *)
(*   assistant/gemma_optimized.py   GemmaClient.ask_question_async         *)
(*   assistant/audio_optimized.py   AudioProcessor record / transcribe     *)
(*   assistant/speak_optimized.py   SpeechSynthesizer.speak_async          *)
(*                                                                         *)
(* Text is a sequence of one-character strings.  Python's None and the     *)
(* fixed user-facing messages are sequences of one symbol that is not a    *)
(* character of the alphabet, so that every text value has the same type   *)
(* and a message is non-empty (truthy) as in Python.                       *)
(***************************************************************************)
EXTENDS Integers, Sequences, FiniteSets, TLC

\* ---------------------------------------------------------------- bounds
\* tokens the language-model service delivers during one ask call (all attempts)
MaxTokens == 3
\* time units the clock runs after a speak call has returned
MaxClock == 3
\* characters by which a context handed to _build_prompt exceeds the budget
MaxOverflow == 2
\* calls of the legacy wrappers record_audio / transcribe_audio in one process
MaxLegacyCalls == 3
\* items a producer puts into the queue of speak_streaming_async
MaxChunks == 3
\* iterations of the interactive loop
MaxIterations == 2

\* ------------------------------------------------------- program constants
max_retries == 3
max_context_length == 4000
default_cleanup_delay == 2
\* cleanup_delay and queue poll timeout of speak_streaming_async (seconds)
stream_cleanup_delay == 1

None == <<"<None>">>
TimeoutMessage == <<"I'm sorry, the request timed out. Please try again.">>
ErrorMessage == <<"I'm sorry, I encountered an error: <e>">>

\* ------------------------------------------------------------ text helpers
Whitespace == {" "}
Terminators == {".", "!", "?"}

RECURSIVE LStrip(_)
LStrip(s) == IF s # <<>> /\ Head(s) \in Whitespace THEN LStrip(Tail(s)) ELSE s

RECURSIVE RStrip(_)
RStrip(s) ==
    IF s # <<>> /\ s[Len(s)] \in Whitespace THEN RStrip(SubSeq(s, 1, Len(s) - 1)) ELSE s

\* str.strip()
Strip(s) == RStrip(LStrip(s))

\* truth value of an Optional[str]: None and "" are false
Truthy(s) == s # None /\ Len(s) > 0

\* any(p in buffer for p in [".", "!", "?"])
HasTerminator(buf) == \E i \in DOMAIN buf : buf[i] \in Terminators

RECURSIVE Concat(_)
Concat(ss) == IF ss = <<>> THEN <<>> ELSE Head(ss) \o Concat(Tail(ss))

\* ------------------------------------------------------------ input sets
\* token fragments of the language-model stream (chunk.get("response", ""))
Tokens == { <<>>, <<"a">>, <<" ">>, <<".">>, <<" ", "b">> }

\* what the speech-recognition engine yields: None (engine raised, see
\* _transcribe_sync) or the "text" of the result
EngineResults ==
    { None, <<>>, <<" ">>, <<"a", "b">>, <<" ", "a", "b", " ">>,
      <<"a", "b", "c">>, <<" ", "a", "b", "c">> }

\* text handed to a direct speak call
SpeakTexts == { <<>>, <<" ">>, <<"a", ".">> }

\* context argument of a directly constructed assistant
ContextArgs == { None, <<>>, <<"c">> }

\* text of the PDF when it exists and the question of a direct ask call
\* contexts around the character budget of _build_prompt; the characters
\* beyond the budget are "x", those within it alternate "c" and "d"
ContextOfLength(n) ==
    [i \in 1..n |-> IF i > max_context_length THEN "x"
                              ELSE IF i % 2 = 0 THEN "c" ELSE "d"]

PromptContexts ==
    { ContextOfLength(n) :
        n \in {0, 1} \cup ((max_context_length - 1)..(max_context_length + MaxOverflow)) }

PdfText == <<"c", "d">>
DirectQuestion == <<"a", "b", "c">>

RecordOutcomes == {"data", "none", "write_error"}

Entries ==
    { "main", "assistant", "ask_question_async", "ask_question_with_streaming_tts",
      "speak_async", "speak_sync", "speak_streamed_text", "_build_prompt",
      "legacy_audio", "model", "speak_streaming_async", "health_check" }

\* items a producer puts into the text_stream queue: chunks and the end signal
StreamItems == { None, <<" ">>, <<"a", ".">>, <<"b", ".">> }

RECURSIVE SeqsUpTo(_, _)
SeqsUpTo(S, n) ==
    IF n = 0 THEN {<<>>}
    ELSE LET shorter == SeqsUpTo(S, n - 1)
         IN  shorter \cup {Append(q, x) : q \in shorter, x \in S}

\* what the operator types at the prompt of the interactive loop
Choices == { <<"y">>, <<"Y">>, <<" ", "y">>, <<"n">>, <<>>, <<"y", "e", "s">> }

\* str.lower() on the characters that occur
Lower(s) == [i \in DOMAIN s |-> IF s[i] = "Y" THEN "y" ELSE s[i]]

\* what the probe of health_check meets: the service responds with a
\* "response" text (None: the key is missing), raises, or stays silent for
\* the 10 s of asyncio.wait_for
HealthProbes ==
    { [kind |-> "responds", text |-> t] : t \in {None, <<>>, <<" ">>, <<"h", "i">>} }
        \cup { [kind |-> k, text |-> None] : k \in {"raises", "timeout"} }

NoProbe == [kind |-> "none", text |-> None]

\* the temp file of the n-th recording of this process
Wav(n) == <<"wav", n>>
\* a caller-chosen file name outside the temp directory (main.py: "input.wav")
InputWav == <<"input.wav", 1>>

\* AudioProcessor._model: 0 is None, k is the object of the k-th load_model
NoModel == 0
\* the two workers of AudioProcessor.executor
Threads == {1, 2}
\* the temp file of the n-th synthesis of this SpeechSynthesizer
Mp3(n) == <<"mp3", n>>
\* speak_async: temp_audio_path before its assignment, and the None that
\* _generate_audio_async returns on failure
Unbound == <<"unbound", 0>>
NoPath == <<"None", 0>>
\* no afplay process has returned a status in this speak_async call
NoStatus == -1
\* exit statuses of the afplay process: 0 and a failure
PlayStatuses == {0, 1}

VARIABLES
    entry,          \* the entry point this run exercises
    pdfExists,      \* Path(pdf_file).exists() at startup
    context,        \* EchoLearnAssistant.context / the context argument of ask
    pc,             \* position in process_question_async
    result,         \* the result dict of process_question_async
    fs,             \* temp files that exist on disk
    recordOutcome,  \* what the recording did in this interaction
    engineResult,   \* what the speech-recognition engine yielded
    askPc,          \* position in ask_question_async
    prompt,         \* the prompt built by _build_prompt
    hasCallback,    \* stream_callback is not None
    attempt,        \* loop variable of the retry loop
    genCalls,       \* invocations of client.generate
    sleeps,         \* backoff sleeps performed
    attemptLog,     \* how each finished attempt ended
    full_response,  \* _generate_response: full_response
    buffer,         \* _generate_response: buffer
    emitted,        \* invocations of stream_callback: attempt, offset, text
    tokensLeft,     \* tokens the service may still deliver
    askRet,         \* return value of ask_question_async
    speakPc,        \* position in speak_async
    speakText,      \* text argument of speak_async
    cleanup_delay,  \* cleanup_delay argument of speak_async
    speakRet,       \* return value of speak_async
    temp_files,     \* SpeechSynthesizer._temp_files
    cleanupTask,    \* per temp file created: state of its _cleanup_temp_file task
    timer,          \* per temp file created: time left of the task's asyncio.sleep
    loopAlive,      \* the event loop the speak call ran in is still running
    elapsed,        \* time since speak_async returned
    temp_audio_path, \* speak_async: what _generate_audio_async returned
    afplay_status,  \* _play_audio_sync: the status os.system returned
    cleanupPc,      \* position in SpeechSynthesizer.cleanup
    audio_file,     \* the audio_file argument of transcribe_audio_async
    _model,         \* AudioProcessor._model of the processor in use
    loadCalls,      \* invocations of whisper.load_model in this process
    legacyCalls,    \* calls of the legacy wrappers made so far
    lastCall,       \* the legacy wrapper that returned last
    threads,        \* per worker thread: position in the model property, value returned
    lock,           \* holder of AudioProcessor._model_lock (0: free)
    queue,          \* the text_stream queue of speak_streaming_async
    plan,           \* items the producer has still to put
    streamPc,       \* position in speak_streaming_async
    dequeued,       \* items text_stream.get() has returned, in order
    narrated,       \* chunks handed to speak_async by the consumer, in order
    unfinished,     \* unfinished tasks of the queue (put: +1, task_done: -1)
    iterations,     \* number of the current call of process_question_async
    continue_choice, \* what the operator typed last at the prompt of the loop
    healthPc,       \* position in health_check
    probe,          \* what the probe of health_check met
    healthRet       \* return value of health_check

pipeVars == <<pc, result, recordOutcome, engineResult>>
askVars == <<askPc, prompt, hasCallback, attempt, genCalls, sleeps, attemptLog,
             full_response, buffer, emitted, tokensLeft, askRet>>
speakVars == <<speakPc, speakText, cleanup_delay, speakRet, temp_files,
               cleanupTask, timer, loopAlive, elapsed, temp_audio_path,
               afplay_status, cleanupPc>>
audioVars == <<audio_file, _model, loadCalls, legacyCalls, lastCall, threads, lock>>
streamVars == <<queue, plan, streamPc, dequeued, narrated, unfinished>>
loopVars == <<iterations, continue_choice>>
healthVars == <<healthPc, probe, healthRet>>
vars == <<entry, pdfExists, context, fs, pipeVars, askVars, speakVars, audioVars, streamVars,
          loopVars, healthVars>>

\* the temp file of the current recording
WavFile == Wav(iterations)
\* file names a caller passes to the legacy wrappers
LegacyFileNames == {WavFile, InputWav}

\* the temp file of the latest synthesis
Mp3File == Mp3(Len(cleanupTask))

\* --------------------------------------------------------------- startup
\* PDFProcessor.extract_text called outside an event loop: the text of an
\* existing file, "" for a missing one
extract_text(exists) == IF exists THEN PdfText ELSE <<>>

\* EchoLearnAssistant.__init__: the context the assistant holds
AssistantContext(ctxArg, pdfPathGiven, exists) ==
    IF ~Truthy(ctxArg) /\ pdfPathGiven THEN extract_text(exists) ELSE ctxArg

NoPrompt == [context |-> <<>>, question |-> <<>>]
NoResult == [success |-> FALSE, question |-> <<>>, answer |-> <<>>,
             timing |-> {}, errors |-> <<>>]

InitAsk ==
    /\ prompt = NoPrompt
    /\ attempt = 0
    /\ genCalls = 0
    /\ sleeps = 0
    /\ attemptLog = <<>>
    /\ full_response = <<>>
    /\ buffer = <<>>
    /\ emitted = <<>>
    /\ tokensLeft = MaxTokens
    /\ askRet = None

InitSpeak ==
    /\ speakRet = FALSE
    /\ temp_files = <<>>
    /\ cleanupTask = <<>>
    /\ timer = <<>>
    /\ loopAlive = TRUE
    /\ elapsed = 0
    /\ temp_audio_path = Unbound
    /\ afplay_status = NoStatus
    /\ cleanupPc = "idle"

InitPipe ==
    /\ result = NoResult
    /\ recordOutcome = "unset"
    /\ engineResult = None

\* AudioProcessor.__init__: no model, lock free
InitAudio ==
    /\ audio_file = None
    /\ _model = NoModel
    /\ loadCalls = 0
    /\ legacyCalls = 0
    /\ lastCall = "none"
    /\ lock = 0

\* main() up to the construction of the assistant, in the event loop that
\* asyncio.run(main()) started
InitMain ==
    /\ entry = "main"
    /\ pdfExists \in BOOLEAN
    /\ context = None
    /\ pc = "constructing"
    /\ askPc = "idle" /\ hasCallback = FALSE
    /\ speakPc = "idle" /\ speakText = <<>> /\ cleanup_delay = default_cleanup_delay

\* an assistant constructed outside an event loop, then process_question_async
InitAssistant ==
    /\ entry = "assistant"
    /\ pdfExists \in BOOLEAN
    /\ \E ctxArg \in ContextArgs, pdfPathGiven \in BOOLEAN :
           context = AssistantContext(ctxArg, pdfPathGiven, pdfExists)
    /\ pc = "start"
    /\ askPc = "idle" /\ hasCallback = FALSE
    /\ speakPc = "idle" /\ speakText = <<>> /\ cleanup_delay = default_cleanup_delay

\* GemmaClient.ask_question_with_streaming_tts(question, context, tts_callback)
InitAskTts ==
    /\ entry = "ask_question_with_streaming_tts"
    /\ pdfExists = FALSE
    /\ context \in ContextArgs
    /\ pc = "none"
    /\ askPc = "call" /\ hasCallback = TRUE
    /\ speakPc = "idle" /\ speakText = <<>> /\ cleanup_delay = default_cleanup_delay

\* GemmaClient.ask_question_async(question, context) without stream callback
InitAskDirect ==
    /\ entry = "ask_question_async"
    /\ pdfExists = FALSE
    /\ context \in ContextArgs
    /\ pc = "none"
    /\ askPc = "call" /\ hasCallback = FALSE
    /\ speakPc = "idle" /\ speakText = <<>> /\ cleanup_delay = default_cleanup_delay

\* a direct speak: speak_async(text, cleanup_delay) in a running loop,
\* speak_sync(text) and the legacy speak_streamed_text(text)
InitSpeakEntry ==
    /\ entry \in {"speak_async", "speak_sync", "speak_streamed_text"}
    /\ pdfExists = FALSE
    /\ context = None
    /\ pc = "none"
    /\ askPc = "idle" /\ hasCallback = FALSE
    /\ speakPc = "call"
    /\ speakText \in SpeakTexts
    /\ cleanup_delay \in (IF entry = "speak_async"
                             THEN {0, default_cleanup_delay}
                             ELSE {default_cleanup_delay})

\* GemmaClient._build_prompt(question, context) on its own
InitBuildPrompt ==
    /\ entry = "_build_prompt"
    /\ pdfExists = FALSE
    /\ context \in PromptContexts
    /\ pc = "none"
    /\ askPc = "build" /\ hasCallback = FALSE
    /\ speakPc = "idle" /\ speakText = <<>> /\ cleanup_delay = default_cleanup_delay

\* the legacy wrappers record_audio(filename, ...) and transcribe_audio(filename)
InitLegacyAudio ==
    /\ entry = "legacy_audio"
    /\ pdfExists = FALSE
    /\ context = None
    /\ pc = "none"
    /\ askPc = "idle" /\ hasCallback = FALSE
    /\ speakPc = "idle" /\ speakText = <<>> /\ cleanup_delay = default_cleanup_delay

\* two workers of one AudioProcessor's pool run _transcribe_sync at once
InitModel ==
    /\ entry = "model"
    /\ pdfExists = FALSE
    /\ context = None
    /\ pc = "none"
    /\ askPc = "idle" /\ hasCallback = FALSE
    /\ speakPc = "idle" /\ speakText = <<>> /\ cleanup_delay = default_cleanup_delay

\* SpeechSynthesizer.speak_streaming_async(text_stream) with a producer that
\* puts the items of plan into the queue
InitStream ==
    /\ entry = "speak_streaming_async"
    /\ pdfExists = FALSE
    /\ context = None
    /\ pc = "none"
    /\ askPc = "idle" /\ hasCallback = FALSE
    /\ speakPc = "idle" /\ speakText = <<>> /\ cleanup_delay = stream_cleanup_delay

\* GemmaClient.health_check()
InitHealth ==
    /\ entry = "health_check"
    /\ pdfExists = FALSE
    /\ context = None
    /\ pc = "none"
    /\ askPc = "idle" /\ hasCallback = FALSE
    /\ speakPc = "idle" /\ speakText = <<>> /\ cleanup_delay = default_cleanup_delay

Init ==
    /\ fs = {}
    /\ InitPipe /\ InitAsk /\ InitSpeak /\ InitAudio
    /\ (InitMain \/ InitAssistant \/ InitAskDirect \/ InitAskTts \/ InitSpeakEntry \/ InitBuildPrompt
          \/ InitLegacyAudio \/ InitModel \/ InitStream \/ InitHealth)
    /\ iterations = 1
    /\ continue_choice = None
    /\ healthPc = IF entry = "health_check" THEN "call" ELSE "none"
    /\ probe = NoProbe
    /\ healthRet = FALSE
    /\ queue = <<>>
    /\ dequeued = <<>>
    /\ narrated = <<>>
    /\ unfinished = 0
    /\ streamPc = IF entry = "speak_streaming_async" THEN "get" ELSE "none"
    /\ plan \in (IF entry = "speak_streaming_async"
                    THEN SeqsUpTo(StreamItems, MaxChunks) ELSE {<<>>})
    /\ threads = [t \in Threads |->
                     [pc |-> IF entry = "model" THEN "check" ELSE "none",
                      path |-> "none", obj |-> NoModel, ret |-> NoModel]]

\* PDFProcessor.extract_text is `asyncio.run(self.extract_text_async(path))`:
\* asyncio.run raises RuntimeError when the calling thread runs an event loop
ExtractTextRaises(inRunningLoop) == inRunningLoop

\* main() constructs the assistant: EchoLearnAssistant() when the PDF is
\* missing (context None), EchoLearnAssistant(pdf_path) when it exists, whose
\* __init__ calls extract_text; a RuntimeError leaves __init__ and is logged
\* by main ("Failed to start assistant"), which ends without an assistant
MainConstructs ==
    /\ entry = "main"
    /\ pc = "constructing"
    /\ pc' = IF pdfExists /\ ExtractTextRaises(TRUE) THEN "setup_failed" ELSE "start"
    /\ UNCHANGED <<result, recordOutcome, engineResult>>
    /\ UNCHANGED <<entry, pdfExists, context, loopVars, healthVars, audioVars, streamVars, fs, askVars, speakVars>>

\* --------------------------------------------------- GemmaClient (answer)
\* a probe result that counts any response as healthy
HealthValue_AnyResponse(p) == p.kind = "responds"

\* health_check: bool(response.get("response")), False in `except Exception`
\* (asyncio.TimeoutError included)
HealthValue(p) == p.kind = "responds" /\ Truthy(p.text)

\* health_check from the call to its return
HealthCheck(p) ==
    /\ healthPc = "call"
    /\ probe' = p
    /\ healthRet' = HealthValue(p)
    /\ healthPc' = "returned"
    /\ UNCHANGED <<entry, pdfExists, context, loopVars, audioVars, streamVars, fs, pipeVars, askVars, speakVars>>

\* a truncation test that is off by one
build_prompt_OffByOne(question, ctx) ==
    [context |-> IF Len(ctx) > max_context_length + 1
                    THEN SubSeq(ctx, 1, max_context_length) \o <<".", ".", ".">>
                    ELSE ctx,
     question |-> question]

\* _build_prompt: the two fields interpolated into the fixed template
build_prompt(question, ctx) ==
    [context |-> IF Len(ctx) > max_context_length
                    THEN SubSeq(ctx, 1, max_context_length) \o <<".", ".", ".">>
                    ELSE ctx,
     question |-> question]

\* the question argument of the ask call
AskQuestion == IF entry \in {"ask_question_async", "ask_question_with_streaming_tts",
                               "_build_prompt"}
                  THEN DirectQuestion ELSE result.question

\* _build_prompt called on its own
BuildPromptCall ==
    /\ askPc = "build"
    /\ prompt' = build_prompt(AskQuestion, context)
    /\ askPc' = "built"
    /\ UNCHANGED <<hasCallback, attempt, genCalls, sleeps, attemptLog, full_response,
                   buffer, emitted, tokensLeft, askRet>>
    /\ UNCHANGED <<entry, pdfExists, context, loopVars, healthVars, audioVars, streamVars, fs, pipeVars, speakVars>>

\* a retry test that never gives up
HasRetriesLeft_Always(n) == TRUE

\* a retry test that gives up one attempt early
HasRetriesLeft_GivesUpEarly(n) == n < max_retries - 2

\* `attempt < self.max_retries - 1` of both except branches
HasRetriesLeft(n) == n < max_retries - 1

\* one pass of `for attempt in range(self.max_retries)` up to the await of
\* client.generate inside _generate_response
StartAttempt(n) ==
    /\ attempt' = n
    /\ genCalls' = genCalls + 1
    /\ full_response' = <<>>
    /\ buffer' = <<>>
    /\ askPc' = "streaming"

\* ask_question_async up to its first await; len(None) in _build_prompt
\* raises TypeError before the try block is entered
AskCall ==
    /\ askPc = "call"
    /\ IF context = None
          THEN /\ askPc' = "raised"
               /\ UNCHANGED <<prompt, attempt, genCalls, full_response, buffer>>
          ELSE /\ prompt' = build_prompt(AskQuestion, context)
               /\ StartAttempt(0)
    /\ UNCHANGED <<hasCallback, sleeps, attemptLog, emitted, tokensLeft, askRet>>
    /\ UNCHANGED <<entry, pdfExists, context, loopVars, healthVars, audioVars, streamVars, fs, pipeVars, speakVars>>

\* a flush that tests the buffer before stripping it
Flush_EmitsBlank(log, buf, offset) ==
    IF hasCallback /\ buf # <<>>
       THEN Append(log, [attempt |-> attempt, offset |-> offset, text |-> Strip(buf)])
       ELSE log

\* the stream_callback invocation of a flushed buffer (empty after strip: none)
Flush(log, buf, offset) ==
    IF hasCallback /\ Strip(buf) # <<>>
       THEN Append(log, [attempt |-> attempt, offset |-> offset, text |-> Strip(buf)])
       ELSE log

\* one iteration of `async for chunk in response_stream`
StreamToken(token) ==
    /\ askPc = "streaming"
    /\ tokensLeft > 0
    /\ tokensLeft' = tokensLeft - 1
    /\ IF ~Truthy(token)
          THEN UNCHANGED <<full_response, buffer, emitted>>
          ELSE LET buf == buffer \o token IN
               /\ full_response' = full_response \o token
               /\ IF hasCallback /\ HasTerminator(buf)
                     THEN /\ emitted' = Flush(emitted, buf, Len(full_response) - Len(buffer))
                          /\ buffer' = <<>>
                     ELSE /\ buffer' = buf
                          /\ UNCHANGED emitted
    /\ UNCHANGED <<askPc, prompt, hasCallback, attempt, genCalls, sleeps, attemptLog, askRet>>
    /\ UNCHANGED <<entry, pdfExists, context, loopVars, healthVars, audioVars, streamVars, fs, pipeVars, speakVars>>

\* the stream ends: remaining buffer flushed, full_response.strip() returned;
\* an empty response falls through to the next pass of the loop (no sleep)
\* and to `return ""` after the last one
StreamEnd ==
    /\ askPc = "streaming"
    /\ emitted' = Flush(emitted, buffer, Len(full_response) - Len(buffer))
    /\ IF Truthy(Strip(full_response))
          THEN /\ attemptLog' = Append(attemptLog, "ok")
               /\ askRet' = Strip(full_response)
               /\ askPc' = "returned"
               /\ UNCHANGED <<attempt, genCalls, full_response, buffer>>
          ELSE /\ attemptLog' = Append(attemptLog, "empty")
               /\ IF attempt + 1 < max_retries
                     THEN StartAttempt(attempt + 1) /\ UNCHANGED askRet
                     ELSE /\ askRet' = <<>>
                          /\ askPc' = "returned"
                          /\ UNCHANGED <<attempt, genCalls, full_response, buffer>>
    /\ UNCHANGED <<prompt, hasCallback, sleeps, tokensLeft>>
    /\ UNCHANGED <<entry, pdfExists, context, loopVars, healthVars, audioVars, streamVars, fs, pipeVars, speakVars>>

\* a failure branch that reports a timeout when any attempt so far timed out
AttemptFails_AnyTimeout(how) ==
    /\ askPc = "streaming"
    /\ attemptLog' = Append(attemptLog, how)
    /\ IF HasRetriesLeft(attempt)
          THEN /\ askPc' = "sleeping"
               /\ sleeps' = sleeps + 1
               /\ UNCHANGED askRet
          ELSE /\ askRet' = (IF \E i \in DOMAIN attemptLog' : attemptLog'[i] = "timeout"
                                THEN TimeoutMessage ELSE ErrorMessage)
               /\ askPc' = "returned"
               /\ UNCHANGED sleeps
    /\ UNCHANGED <<prompt, hasCallback, attempt, genCalls, full_response, buffer,
                   emitted, tokensLeft>>
    /\ UNCHANGED <<entry, pdfExists, context, loopVars, healthVars, audioVars, streamVars, fs, pipeVars, speakVars>>

\* an attempt fails: how = "timeout" is asyncio.wait_for raising TimeoutError,
\* how = "error" is client.generate or the stream raising another exception
AttemptFails(how) ==
    /\ askPc = "streaming"
    /\ attemptLog' = Append(attemptLog, how)
    /\ IF HasRetriesLeft(attempt)
          THEN /\ askPc' = "sleeping"
               /\ sleeps' = sleeps + 1
               /\ UNCHANGED askRet
          ELSE /\ askRet' = (IF how = "timeout" THEN TimeoutMessage ELSE ErrorMessage)
               /\ askPc' = "returned"
               /\ UNCHANGED sleeps
    /\ UNCHANGED <<prompt, hasCallback, attempt, genCalls, full_response, buffer,
                   emitted, tokensLeft>>
    /\ UNCHANGED <<entry, pdfExists, context, loopVars, healthVars, audioVars, streamVars, fs, pipeVars, speakVars>>

AttemptTimeout == AttemptFails("timeout")

\* an error branch that surfaces the message at once, without retrying
AttemptError_NoRetry ==
    /\ askPc = "streaming"
    /\ attemptLog' = Append(attemptLog, "error")
    /\ askRet' = ErrorMessage
    /\ askPc' = "returned"
    /\ UNCHANGED <<prompt, hasCallback, attempt, genCalls, sleeps, full_response, buffer,
                   emitted, tokensLeft>>
    /\ UNCHANGED <<entry, pdfExists, context, loopVars, healthVars, audioVars, streamVars, fs, pipeVars, speakVars>>

AttemptError == AttemptFails("error")

\* asyncio.sleep(self.retry_delay) is over: `continue` with the next attempt
RetryAfterSleep ==
    /\ askPc = "sleeping"
    /\ StartAttempt(attempt + 1)
    /\ UNCHANGED <<prompt, hasCallback, sleeps, attemptLog, emitted, tokensLeft, askRet>>
    /\ UNCHANGED <<entry, pdfExists, context, loopVars, healthVars, audioVars, streamVars, fs, pipeVars, speakVars>>

\* ------------------------------------------- AudioProcessor (capture, text)
\* a temp-directory test that matches no path
InTempDir_Never(f) == FALSE

\* tempfile.NamedTemporaryFile places the file in tempfile.gettempdir()
InTempDir(f) == f[1] \in {"wav", "mp3"}

\* a finally block that leaves the file in place
CleanupAudioFile_Keeps(files, f) == files

\* the finally block of transcribe_audio_async
CleanupAudioFile(files, f) == IF f \in files /\ InTempDir(f) THEN files \ {f} ELSE files

\* the return value of transcribe_audio_async for an engine result
Transcription(r) == IF r = None THEN <<>> ELSE Strip(r)

\* a validity test that lost its length check
IsValidQuestion_NoLength(q) == Truthy(q)

\* the inner test of the model property that never sees the loaded model
SecondCheck_Skipped(m) == TRUE

\* the test `self._model is None` made while holding the lock
SecondCheck(m) == m = NoModel

\* the model property run by one thread alone: load when _model is None
ModelAfterAccess(m, loads) == IF m = NoModel /\ SecondCheck(m) THEN loads + 1 ELSE m

LoadsAfterAccess(m, loads) == IF m = NoModel /\ SecondCheck(m) THEN loads + 1 ELSE loads

\* negation of `not question or len(question.strip()) < 3`
IsValidQuestion(q) == ~(~Truthy(q) \/ Len(Strip(q)) < 3)

\* ------------------------------------------------ SpeechSynthesizer (speak)
\* list.remove of the first occurrence
RECURSIVE ListRemove(_, _)
ListRemove(l, x) ==
    IF l = <<>> THEN <<>>
    ELSE IF Head(l) = x THEN Tail(l) ELSE <<Head(l)>> \o ListRemove(Tail(l), x)

\* a blank test that forgot the strip
IsBlankText_NoStrip(text) == ~Truthy(text)

\* `not text or not text.strip()`
IsBlankText(text) == ~Truthy(text) \/ ~Truthy(Strip(text))

\* speak_async up to its first await: blank text returns False, otherwise
\* _generate_audio_async creates and tracks the temp file and awaits synthesis
SpeakCall ==
    /\ speakPc = "call"
    /\ temp_audio_path' = Unbound
    /\ afplay_status' = NoStatus
    /\ IF IsBlankText(speakText)
          THEN /\ speakRet' = FALSE
               /\ speakPc' = "returned"
               /\ elapsed' = 0
               /\ UNCHANGED <<fs, temp_files, cleanupTask, timer>>
          ELSE /\ fs' = fs \cup {Mp3(Len(cleanupTask) + 1)}
               /\ temp_files' = Append(temp_files, Mp3(Len(cleanupTask) + 1))
               /\ cleanupTask' = Append(cleanupTask, "none")
               /\ timer' = Append(timer, 0)
               /\ speakPc' = "synthesizing"
               /\ UNCHANGED <<speakRet, elapsed>>
    /\ UNCHANGED <<speakText, cleanup_delay, loopAlive, cleanupPc>>
    /\ UNCHANGED <<entry, pdfExists, context, loopVars, healthVars, audioVars, streamVars, pipeVars, askVars>>

\* a speak_async that cleans up only after a successful playback
ScheduleCleanup_OnlyOnSuccess ==
    IF ~speakRet'
       THEN UNCHANGED <<cleanupTask, timer, fs, temp_files>>
       ELSE IF cleanup_delay > 0
               THEN /\ cleanupTask' = [cleanupTask EXCEPT ![Len(cleanupTask)] = "pending"]
                    /\ timer' = [timer EXCEPT ![Len(timer)] = cleanup_delay]
                    /\ UNCHANGED <<fs, temp_files>>
               ELSE /\ cleanupTask' = [cleanupTask EXCEPT ![Len(cleanupTask)] = "done"]
                    /\ fs' = fs \ {Mp3File}
                    /\ temp_files' = ListRemove(temp_files, Mp3File)
                    /\ UNCHANGED timer

\* speak_async after _play_audio_async: the cleanup of the temp file is
\* scheduled as a task (delay > 0) or awaited inline (delay 0)
ScheduleCleanup ==
    IF cleanup_delay > 0
       THEN /\ cleanupTask' = [cleanupTask EXCEPT ![Len(cleanupTask)] = "pending"]
            /\ timer' = [timer EXCEPT ![Len(timer)] = cleanup_delay]
            /\ UNCHANGED <<fs, temp_files>>
       ELSE /\ cleanupTask' = [cleanupTask EXCEPT ![Len(cleanupTask)] = "done"]
            /\ fs' = fs \ {Mp3File}
            /\ temp_files' = ListRemove(temp_files, Mp3File)
            /\ UNCHANGED timer

\* communicate.stream() finishes (ok) or raises: _generate_audio_async returns
\* the path or None, and speak_async returns False on None; with a path,
\* _play_audio_async hands the file to the executor, or returns False at once
\* when the file is no longer there, and then the cleanup follows
SynthesisReturns(ok) ==
    /\ speakPc = "synthesizing"
    /\ IF ok
          THEN /\ temp_audio_path' = Mp3File
               /\ IF Mp3File \in fs
                     THEN /\ speakPc' = "playing"
                          /\ UNCHANGED <<speakRet, elapsed, fs, temp_files, cleanupTask, timer>>
                     ELSE /\ speakPc' = "returned"
                          /\ speakRet' = FALSE
                          /\ elapsed' = 0
                          /\ ScheduleCleanup
          ELSE /\ temp_audio_path' = NoPath
               /\ speakPc' = "returned"
               /\ speakRet' = FALSE
               /\ elapsed' = 0
               /\ UNCHANGED <<fs, temp_files, cleanupTask, timer>>
    /\ UNCHANGED <<speakText, cleanup_delay, afplay_status, loopAlive, cleanupPc>>
    /\ UNCHANGED <<entry, pdfExists, context, loopVars, healthVars, audioVars, streamVars, pipeVars, askVars>>

\* _play_audio_sync returns `status == 0`; then the cleanup is scheduled or
\* awaited, and speak_async returns what the playback returned
PlayReturns(status) ==
    /\ speakPc = "playing"
    /\ afplay_status' = status
    /\ speakRet' = (status = 0)
    /\ speakPc' = "returned"
    /\ elapsed' = 0
    /\ ScheduleCleanup
    /\ UNCHANGED <<speakText, cleanup_delay, temp_audio_path, loopAlive, cleanupPc>>
    /\ UNCHANGED <<entry, pdfExists, context, loopVars, healthVars, audioVars, streamVars, pipeVars, askVars>>

\* the task of _cleanup_temp_file for the i-th temp file resumes after its
\* asyncio.sleep(delay)
CleanupTaskRuns(i) ==
    /\ cleanupTask[i] = "pending"
    /\ timer[i] = 0
    /\ loopAlive
    /\ cleanupTask' = [cleanupTask EXCEPT ![i] = "done"]
    /\ fs' = fs \ {Mp3(i)}
    /\ temp_files' = ListRemove(temp_files, Mp3(i))
    /\ UNCHANGED <<speakPc, speakText, cleanup_delay, temp_audio_path, afplay_status, cleanupPc, speakRet, timer, loopAlive, elapsed>>
    /\ UNCHANGED <<entry, pdfExists, context, loopVars, healthVars, audioVars, streamVars, pipeVars, askVars>>

\* speak_sync: asyncio.run cancels the tasks still pending when speak_async
\* is done; speak_streamed_text: loop.close() right after run_until_complete
\* leaves the pending task never to run
LoopClose ==
    /\ entry \in {"speak_sync", "speak_streamed_text"}
    /\ speakPc = "returned"
    /\ loopAlive
    /\ loopAlive' = FALSE
    /\ cleanupTask' = [i \in DOMAIN cleanupTask |->
                         IF cleanupTask[i] = "pending" THEN "cancelled" ELSE cleanupTask[i]]
    /\ UNCHANGED <<speakPc, speakText, cleanup_delay, temp_audio_path, afplay_status, cleanupPc, speakRet, temp_files, timer, elapsed>>
    /\ UNCHANGED <<entry, pdfExists, context, loopVars, healthVars, audioVars, streamVars, fs, pipeVars, askVars>>

\* a cleanup task of a running loop whose sleep is over runs before more
\* time passes
CleanupDue ==
    loopAlive /\ \E i \in DOMAIN cleanupTask : cleanupTask[i] = "pending" /\ timer[i] = 0

\* one second passes: the clock since the last speak_async return and the
\* sleeps of the pending cleanup tasks advance
TimePasses ==
    /\ elapsed < MaxClock
    /\ ~CleanupDue
    /\ elapsed' = elapsed + 1
    /\ timer' = [i \in DOMAIN timer |->
                   IF loopAlive /\ cleanupTask[i] = "pending" THEN timer[i] - 1 ELSE timer[i]]

\* time passes after speak_async returned (the wrappers close their loop at
\* once); under speak_streaming_async also while a chunk is synthesized or
\* played and after the consumer returned
Tick ==
    /\ IF entry = "speak_streaming_async"
          THEN \/ streamPc = "speaking" /\ speakPc \in {"synthesizing", "playing"}
               \/ streamPc = "returned"
          ELSE speakPc = "returned"
    /\ entry \in {"speak_sync", "speak_streamed_text"} => ~loopAlive
    /\ TimePasses
    /\ UNCHANGED <<speakPc, speakText, cleanup_delay, temp_audio_path, afplay_status, cleanupPc, speakRet, temp_files, cleanupTask, loopAlive>>
    /\ UNCHANGED <<entry, pdfExists, context, loopVars, healthVars, audioVars, streamVars, fs, pipeVars, askVars>>

\* ------------------------------------------------- speak_streaming_async
\* a queue that hands out its newest item
QueueGet_Newest(q) == q[Len(q)]

\* asyncio.Queue.get: the oldest item
QueueGet(q) == Head(q)

\* the producer puts its next item (queue.put)
StreamPut ==
    /\ plan # <<>>
    /\ queue' = Append(queue, Head(plan))
    /\ plan' = Tail(plan)
    /\ unfinished' = unfinished + 1
    /\ UNCHANGED <<streamPc, dequeued, narrated>>
    /\ UNCHANGED <<entry, pdfExists, context, loopVars, healthVars, audioVars, fs, pipeVars, askVars, speakVars>>

\* text_stream.get() returns an item: the end signal breaks out of the loop,
\* a non-blank chunk is handed to speak_async(chunk, cleanup_delay=1.0), a
\* blank chunk is only marked done
StreamGet ==
    /\ streamPc = "get"
    /\ queue # <<>>
    /\ LET item == QueueGet(queue) IN
       /\ queue' = Tail(queue)
       /\ dequeued' = Append(dequeued, item)
       /\ IF item = None
             THEN /\ streamPc' = "returned"
                  /\ UNCHANGED <<narrated, unfinished, speakPc, speakText>>
             ELSE IF Truthy(Strip(item))
                     THEN /\ streamPc' = "speaking"
                          /\ narrated' = Append(narrated, item)
                          /\ speakPc' = "call"
                          /\ speakText' = item
                          /\ UNCHANGED unfinished
                     ELSE /\ unfinished' = unfinished - 1
                          /\ UNCHANGED <<streamPc, narrated, speakPc, speakText>>
    /\ UNCHANGED plan
    /\ UNCHANGED <<cleanup_delay, temp_audio_path, afplay_status, cleanupPc, speakRet, temp_files, cleanupTask, timer, loopAlive, elapsed>>
    /\ UNCHANGED <<entry, pdfExists, context, loopVars, healthVars, audioVars, fs, pipeVars, askVars>>

\* a consumer that gives up when the queue stays empty for a second
StreamPollTimeout_GivesUp ==
    /\ streamPc = "get"
    /\ queue = <<>>
    /\ TimePasses
    /\ streamPc' = "returned"
    /\ UNCHANGED <<queue, plan, dequeued, narrated, unfinished>>
    /\ UNCHANGED <<speakPc, speakText, cleanup_delay, temp_audio_path, afplay_status, cleanupPc, speakRet, temp_files, cleanupTask, loopAlive>>
    /\ UNCHANGED <<entry, pdfExists, context, loopVars, healthVars, audioVars, fs, pipeVars, askVars>>

\* asyncio.wait_for(text_stream.get(), timeout=1.0) times out on the empty
\* queue after one second: `continue`
StreamPollTimeout ==
    /\ streamPc = "get"
    /\ queue = <<>>
    /\ TimePasses
    /\ UNCHANGED <<speakPc, speakText, cleanup_delay, temp_audio_path, afplay_status, cleanupPc, speakRet, temp_files, cleanupTask, loopAlive>>
    /\ UNCHANGED <<entry, pdfExists, context, loopVars, healthVars, audioVars, streamVars, fs, pipeVars, askVars>>

\* speak_async returned to the consumer: text_stream.task_done(), next get
StreamSpeakReturns ==
    /\ streamPc = "speaking"
    /\ speakPc = "returned"
    /\ streamPc' = "get"
    /\ unfinished' = unfinished - 1
    /\ UNCHANGED <<queue, plan, dequeued, narrated>>
    /\ UNCHANGED <<entry, pdfExists, context, loopVars, healthVars, audioVars, fs, pipeVars, askVars, speakVars>>

\* ------------------------------------- EchoLearnAssistant (the interaction)
AddTiming(r, key) == [r EXCEPT !.timing = @ \cup {key}]

\* an append that loses the message
AddError_Drops(r, msg) == r

AddError(r, msg) == [r EXCEPT !.errors = Append(@, msg)]

\* process_question_async up to the await inside record_audio_async, which
\* has created its temp file (filename is None)
RecordStart ==
    /\ pc = "start"
    /\ pc' = "recording"
    /\ result' = NoResult
    /\ fs' = fs \cup {WavFile}
    /\ UNCHANGED <<recordOutcome, engineResult>>
    /\ UNCHANGED <<entry, pdfExists, context, loopVars, healthVars, audioVars, streamVars, askVars, speakVars>>

\* the files left by record_audio_async: "none" (device error, audio_data is
\* None) returns without removing the file, "write_error" removes it
FilesAfterRecord(files, f, outcome) ==
    IF outcome = "write_error" THEN files \ {f}
    ELSE IF outcome = "data" THEN files \cup {f} ELSE files

\* a check of the recording that lets every outcome through to transcription
RecordReturns_AlwaysTranscribes(outcome) ==
    /\ pc = "recording"
    /\ recordOutcome' = outcome
    /\ fs' = FilesAfterRecord(fs, WavFile, outcome)
    /\ audio_file' = IF outcome = "data" THEN WavFile ELSE None
    /\ UNCHANGED <<_model, loadCalls, legacyCalls, lastCall, threads, lock>>
    /\ pc' = "transcribing"
    /\ result' = AddTiming(result, "recording")
    /\ UNCHANGED engineResult
    /\ UNCHANGED <<entry, pdfExists, context, loopVars, healthVars, streamVars, askVars, speakVars>>

\* record_audio_async returns; `if not audio_file` ends the interaction
RecordReturns(outcome) ==
    /\ pc = "recording"
    /\ recordOutcome' = outcome
    /\ fs' = FilesAfterRecord(fs, WavFile, outcome)
    /\ audio_file' = IF outcome = "data" THEN WavFile ELSE None
    /\ UNCHANGED <<_model, loadCalls, legacyCalls, lastCall, threads, lock>>
    /\ IF outcome = "data"
          THEN /\ pc' = "transcribing"
               /\ result' = AddTiming(result, "recording")
          ELSE /\ pc' = "returned"
               /\ result' = AddError(AddTiming(result, "recording"), "Failed to record audio")
    /\ UNCHANGED engineResult
    /\ UNCHANGED <<entry, pdfExists, context, loopVars, healthVars, streamVars, askVars, speakVars>>

\* transcribe_audio_async returns (its finally block has run); an invalid
\* question ends the interaction, a valid one enters ask_question_async
TranscribeReturns(r) ==
    /\ pc = "transcribing"
    /\ engineResult' = r
    /\ fs' = CleanupAudioFile(fs, audio_file)
    /\ _model' = ModelAfterAccess(_model, loadCalls)
    /\ loadCalls' = LoadsAfterAccess(_model, loadCalls)
    /\ UNCHANGED <<audio_file, legacyCalls, lastCall, threads, lock>>
    /\ LET question == Transcription(r)
           res == [AddTiming(result, "transcription") EXCEPT !.question = question]
       IN  IF IsValidQuestion(question)
              THEN /\ pc' = "asking"
                   /\ askPc' = "call"
                   /\ result' = res
              ELSE /\ pc' = "returned"
                   /\ result' = AddError(res, "No valid question transcribed")
                   /\ UNCHANGED askPc
    /\ UNCHANGED recordOutcome
    /\ UNCHANGED <<prompt, hasCallback, attempt, genCalls, sleeps, attemptLog,
                   full_response, buffer, emitted, tokensLeft, askRet>>
    /\ UNCHANGED <<entry, pdfExists, context, loopVars, healthVars, streamVars, speakVars>>

\* ask_question_async raised: `except Exception` of process_question_async
AskRaised ==
    /\ pc = "asking"
    /\ askPc = "raised"
    /\ pc' = "returned"
    /\ result' = AddError(result, "Unexpected error")
    /\ UNCHANGED <<recordOutcome, engineResult>>
    /\ UNCHANGED <<entry, pdfExists, context, loopVars, healthVars, audioVars, streamVars, fs, askVars, speakVars>>

\* ask_question_async returned: `if not answer` ends the interaction, any
\* other answer is handed to speak_async
AskReturns ==
    /\ pc = "asking"
    /\ askPc = "returned"
    /\ LET res == [AddTiming(result, "gemma") EXCEPT !.answer = askRet]
       IN  IF ~Truthy(askRet)
              THEN /\ pc' = "returned"
                   /\ result' = AddError(res, "No answer received from Gemma")
                   /\ UNCHANGED <<speakPc, speakText>>
              ELSE /\ pc' = "speaking"
                   /\ result' = res
                   /\ speakPc' = "call"
                   /\ speakText' = askRet
    /\ UNCHANGED <<recordOutcome, engineResult>>
    /\ UNCHANGED <<cleanup_delay, temp_audio_path, afplay_status, cleanupPc, speakRet, temp_files, cleanupTask, timer, loopAlive, elapsed>>
    /\ UNCHANGED <<entry, pdfExists, context, loopVars, healthVars, audioVars, streamVars, fs, askVars>>

\* speak_async returned (its value is not looked at): success
SpeakReturns ==
    /\ pc = "speaking"
    /\ speakPc = "returned"
    /\ pc' = "returned"
    /\ result' = [AddTiming(AddTiming(result, "speech"), "total") EXCEPT !.success = TRUE]
    /\ UNCHANGED <<recordOutcome, engineResult>>
    /\ UNCHANGED <<entry, pdfExists, context, loopVars, healthVars, audioVars, streamVars, fs, askVars, speakVars>>

Range(l) == {l[i] : i \in DOMAIN l}

\* the stage awaited by process_question_async is suspended at an await
AtAwait ==
    \/ pc \in {"recording", "transcribing"}
    \/ pc = "asking" /\ askPc \in {"streaming", "sleeping"}
    \/ pc = "speaking" /\ speakPc \in {"synthesizing", "playing"}

\* the files left when the stage in progress is unwound by a BaseException:
\* the `except Exception` clauses of record_audio_async and speak_async are
\* passed by, the finally block of transcribe_audio_async runs
FilesAfterUnwind(files) ==
    IF pc = "transcribing" THEN CleanupAudioFile(files, audio_file) ELSE files

\* the operator interrupts (Ctrl-C) while an interaction is in progress: the
\* task is cancelled at its await (asyncio.CancelledError, or
\* KeyboardInterrupt caught by run_interactive_loop), neither of which is an
\* Exception; the interaction and the loop are left, and under main() the
\* finally block awaits assistant.cleanup(), where SpeechSynthesizer.cleanup
\* removes the files in _temp_files
Interrupt ==
    /\ entry \in {"main", "assistant"}
    /\ AtAwait
    /\ pc' = "interrupted"
    /\ askPc' = IF pc = "asking" THEN "cancelled" ELSE askPc
    /\ speakPc' = IF pc = "speaking" THEN "cancelled" ELSE speakPc
    /\ IF entry = "main"
          THEN /\ fs' = FilesAfterUnwind(fs) \ Range(temp_files)
               /\ temp_files' = <<>>
               /\ cleanupPc' = "done"
          ELSE /\ fs' = FilesAfterUnwind(fs)
               /\ UNCHANGED <<temp_files, cleanupPc>>
    /\ UNCHANGED <<result, recordOutcome, engineResult>>
    /\ UNCHANGED <<prompt, hasCallback, attempt, genCalls, sleeps, attemptLog,
                   full_response, buffer, emitted, tokensLeft, askRet>>
    /\ UNCHANGED <<speakText, cleanup_delay, temp_audio_path, afplay_status, speakRet,
                   cleanupTask, timer, loopAlive, elapsed>>
    /\ UNCHANGED <<entry, pdfExists, context, loopVars, healthVars, audioVars, streamVars>>

\* a cleanup() that forgets the files it tracked without removing them
cleanup_ForgetsFiles ==
    /\ cleanupPc = "idle"
    /\ \/ entry = "main" /\ pc = "exited"
       \/ entry = "speak_async" /\ speakPc \in {"synthesizing", "playing", "returned"}
       \/ entry = "speak_streaming_async" /\ streamPc = "returned"
    /\ temp_files' = <<>>
    /\ cleanupPc' = "done"
    /\ UNCHANGED <<speakPc, speakText, cleanup_delay, speakRet, cleanupTask, timer, loopAlive,
                   elapsed, temp_audio_path, afplay_status>>
    /\ UNCHANGED <<entry, pdfExists, context, loopVars, healthVars, audioVars, streamVars, fs, pipeVars, askVars>>

\* SpeechSynthesizer.cleanup(): _cleanup_temp_file(path, 0) for every path in
\* _temp_files removes the file and its entry. It is awaited by the finally
\* block of main() after the loop was left, by a caller of speak_async while
\* the call is in flight or after it, and by the caller of
\* speak_streaming_async after the consumer returned
cleanup ==
    /\ cleanupPc = "idle"
    /\ \/ entry = "main" /\ pc = "exited"
       \/ entry = "speak_async" /\ speakPc \in {"synthesizing", "playing", "returned"}
       \/ entry = "speak_streaming_async" /\ streamPc = "returned"
    /\ fs' = fs \ Range(temp_files)
    /\ temp_files' = <<>>
    /\ cleanupPc' = "done"
    /\ UNCHANGED <<speakPc, speakText, cleanup_delay, speakRet, cleanupTask, timer, loopAlive,
                   elapsed, temp_audio_path, afplay_status>>
    /\ UNCHANGED <<entry, pdfExists, context, loopVars, healthVars, audioVars, streamVars, pipeVars, askVars>>

\* a prompt that compares the input as typed, case included
ContinueChosen_CaseSensitive(choice) == Strip(choice) = <<"y">>

\* `input(...).strip().lower()` compared with 'y'
ContinueChosen(choice) == Lower(Strip(choice)) = <<"y">>

\* run_interactive_loop after process_question_async returned: the result is
\* shown and the operator asked; 'y' starts the next iteration, anything else
\* leaves the loop
LoopPrompt(choice) ==
    /\ entry = "main"
    /\ pc = "returned"
    /\ continue_choice' = choice
    /\ IF ContinueChosen(choice)
          THEN /\ iterations < MaxIterations
               /\ iterations' = iterations + 1
               /\ pc' = "start"
               /\ askPc' = "idle"
          ELSE /\ pc' = "exited"
               /\ UNCHANGED <<iterations, askPc>>
    /\ UNCHANGED <<result, recordOutcome, engineResult>>
    /\ UNCHANGED <<prompt, hasCallback, attempt, genCalls, sleeps, attemptLog,
                   full_response, buffer, emitted, tokensLeft, askRet>>
    /\ UNCHANGED <<entry, pdfExists, context, healthVars, audioVars, streamVars, fs, speakVars>>

\* ------------------------------------------------- the legacy audio wrappers
\* record_audio(filename, duration, fs): a new AudioProcessor records into
\* the caller's file name (no temp file is created)
LegacyRecord(f, outcome) ==
    /\ entry = "legacy_audio"
    /\ legacyCalls < MaxLegacyCalls
    /\ legacyCalls' = legacyCalls + 1
    /\ lastCall' = "record_audio"
    /\ _model' = NoModel
    /\ fs' = FilesAfterRecord(fs, f, outcome)
    /\ UNCHANGED <<audio_file, loadCalls, threads, lock>>
    /\ UNCHANGED <<entry, pdfExists, context, loopVars, healthVars, streamVars, pipeVars, askVars, speakVars>>

\* transcribe_audio(filename): a new AudioProcessor runs
\* transcribe_audio_async(filename): a missing file returns "" at once,
\* otherwise _transcribe_sync loads the model of this processor, the engine
\* yields r and the finally block runs
LegacyTranscribe(f, r) ==
    /\ entry = "legacy_audio"
    /\ legacyCalls < MaxLegacyCalls
    /\ legacyCalls' = legacyCalls + 1
    /\ lastCall' = "transcribe_audio"
    /\ audio_file' = f
    /\ IF f \in fs
          THEN /\ _model' = ModelAfterAccess(NoModel, loadCalls)
               /\ loadCalls' = LoadsAfterAccess(NoModel, loadCalls)
               /\ engineResult' = r
               /\ fs' = CleanupAudioFile(fs, f)
          ELSE /\ _model' = NoModel
               /\ engineResult' = None
               /\ UNCHANGED <<loadCalls, fs>>
    /\ UNCHANGED <<threads, lock>>
    /\ UNCHANGED <<pc, result, recordOutcome>>
    /\ UNCHANGED <<entry, pdfExists, context, loopVars, healthVars, streamVars, askVars, speakVars>>

\* ------------------------------------------------ AudioProcessor.model
ThreadUnchanged ==
    /\ UNCHANGED <<audio_file, legacyCalls, lastCall>>
    /\ UNCHANGED <<entry, pdfExists, context, loopVars, healthVars, streamVars, fs, pipeVars, askVars, speakVars>>

\* the outer `if self._model is None`
ModelCheck(t) ==
    /\ threads[t].pc = "check"
    /\ threads' = [threads EXCEPT ![t].pc = IF _model = NoModel THEN "acquire" ELSE "return",
                                  ![t].path = IF _model = NoModel THEN "slow" ELSE "fast"]
    /\ UNCHANGED <<_model, loadCalls, lock>>
    /\ ThreadUnchanged

\* `with self._model_lock:` entered, and the inner `if self._model is None`
ModelAcquire(t) ==
    /\ threads[t].pc = "acquire"
    /\ lock = 0
    /\ lock' = t
    /\ threads' = [threads EXCEPT ![t].pc = IF SecondCheck(_model) THEN "load" ELSE "release",
                                  ![t].path = IF SecondCheck(_model) THEN "loaded" ELSE "found"]
    /\ UNCHANGED <<_model, loadCalls>>
    /\ ThreadUnchanged

\* whisper.load_model(self.model_size) is called and returns a new object
ModelLoad(t) ==
    /\ threads[t].pc = "load"
    /\ loadCalls' = loadCalls + 1
    /\ threads' = [threads EXCEPT ![t].pc = "assign", ![t].obj = loadCalls + 1]
    /\ UNCHANGED <<_model, lock>>
    /\ ThreadUnchanged

\* self._model = <the loaded object>
ModelAssign(t) ==
    /\ threads[t].pc = "assign"
    /\ _model' = threads[t].obj
    /\ threads' = [threads EXCEPT ![t].pc = "release"]
    /\ UNCHANGED <<loadCalls, lock>>
    /\ ThreadUnchanged

\* the with block is left
ModelRelease(t) ==
    /\ threads[t].pc = "release"
    /\ lock' = 0
    /\ threads' = [threads EXCEPT ![t].pc = "return"]
    /\ UNCHANGED <<_model, loadCalls>>
    /\ ThreadUnchanged

\* return self._model
ModelReturn(t) ==
    /\ threads[t].pc = "return"
    /\ threads' = [threads EXCEPT ![t].pc = "done", ![t].ret = _model]
    /\ UNCHANGED <<_model, loadCalls, lock>>
    /\ ThreadUnchanged

Next ==
    \/ cleanup
    \/ RecordStart
    \/ \E outcome \in RecordOutcomes : RecordReturns(outcome)
    \/ \E r \in EngineResults : TranscribeReturns(r)
    \/ AskCall
    \/ BuildPromptCall
    \/ \E token \in Tokens : StreamToken(token)
    \/ StreamEnd
    \/ AttemptTimeout
    \/ AttemptError
    \/ RetryAfterSleep
    \/ AskRaised
    \/ AskReturns
    \/ SpeakCall
    \/ \E ok \in BOOLEAN : SynthesisReturns(ok)
    \/ \E status \in PlayStatuses : PlayReturns(status)
    \/ \E i \in DOMAIN cleanupTask : CleanupTaskRuns(i)
    \/ LoopClose
    \/ Tick
    \/ SpeakReturns
    \/ \E f \in LegacyFileNames, outcome \in RecordOutcomes : LegacyRecord(f, outcome)
    \/ \E f \in LegacyFileNames, r \in EngineResults : LegacyTranscribe(f, r)
    \/ \E t \in Threads : ModelCheck(t)
    \/ \E t \in Threads : ModelAcquire(t)
    \/ \E t \in Threads : ModelLoad(t)
    \/ \E t \in Threads : ModelAssign(t)
    \/ \E t \in Threads : ModelRelease(t)
    \/ \E t \in Threads : ModelReturn(t)
    \/ StreamPut
    \/ StreamGet
    \/ StreamPollTimeout
    \/ StreamSpeakReturns
    \/ MainConstructs
    \/ \E choice \in Choices : LoopPrompt(choice)
    \/ \E p \in HealthProbes : HealthCheck(p)
    \/ Interrupt

Spec == Init /\ [][Next]_vars

\* ------------------------------------------ one ask call, run to its end
AskInit == Init /\ entry \in {"ask_question_async", "ask_question_with_streaming_tts"}

AttemptProgress ==
    \/ \E token \in Tokens : StreamToken(token)
    \/ StreamEnd
    \/ AttemptTimeout
    \/ AttemptError

AskNext == AskCall \/ AttemptProgress \/ RetryAfterSleep

\* the event loop resumes the coroutine whenever it can run; an attempt
\* in flight goes on (a token, the end of the stream, an exception) or is cut
\* off by the timeout of asyncio.wait_for, and asyncio.sleep returns
AskFairness ==
    /\ WF_vars(AskCall)
    /\ WF_vars(AttemptProgress)
    /\ WF_vars(RetryAfterSleep)

AskSpec == AskInit /\ [][AskNext]_vars /\ AskFairness

\* ------------------------- speak_streaming_async with its producer, to the end
StreamInit == Init /\ entry = "speak_streaming_async"

SpeakProgress ==
    \/ SpeakCall
    \/ \E ok \in BOOLEAN : SynthesisReturns(ok)
    \/ \E status \in PlayStatuses : PlayReturns(status)

StreamNext ==
    \/ StreamPut
    \/ StreamGet
    \/ StreamPollTimeout
    \/ StreamSpeakReturns
    \/ SpeakProgress
    \/ \E i \in DOMAIN cleanupTask : CleanupTaskRuns(i)
    \/ Tick

\* the event loop resumes the consumer when the queue holds an item and when
\* speak_async has returned; the synthesis stream of a chunk comes to an end
\* or raises, and the playback of the file returns
StreamFairness ==
    /\ WF_vars(StreamGet)
    /\ WF_vars(StreamSpeakReturns)
    /\ WF_vars(SpeakProgress)

StreamSpec == StreamInit /\ [][StreamNext]_vars /\ StreamFairness

TypeOK ==
    /\ entry \in Entries
    /\ pc \in {"none", "constructing", "setup_failed", "start", "recording", "transcribing",
               "asking", "speaking", "returned", "exited", "interrupted"}
    /\ iterations \in 1..MaxIterations
    /\ continue_choice \in Choices \cup {None}
    /\ healthPc \in {"none", "call", "returned"}
    /\ probe \in HealthProbes \cup {NoProbe}
    /\ healthRet \in BOOLEAN
    /\ askPc \in {"idle", "call", "build", "built", "raised", "streaming", "sleeping",
                  "returned", "cancelled"}
    /\ speakPc \in {"idle", "call", "synthesizing", "playing", "returned", "cancelled"}
    /\ temp_audio_path \in {Unbound, NoPath} \cup {Mp3(i) : i \in DOMAIN cleanupTask}
    /\ afplay_status \in PlayStatuses \cup {NoStatus}
    /\ cleanupPc \in {"idle", "done"}
    /\ attempt \in 0..(max_retries - 1)
    /\ genCalls \in 0..max_retries
    /\ tokensLeft \in 0..MaxTokens
    /\ elapsed \in 0..MaxClock
    /\ \A i \in DOMAIN cleanupTask : cleanupTask[i] \in {"none", "pending", "done", "cancelled"}
    /\ \A i \in DOMAIN timer : timer[i] \in 0..default_cleanup_delay
    /\ streamPc \in {"none", "get", "speaking", "returned"}
    /\ unfinished \in 0..MaxChunks
    /\ loadCalls \in 0..MaxLegacyCalls
    /\ _model \in 0..MaxLegacyCalls
    /\ legacyCalls \in 0..MaxLegacyCalls
    /\ lock \in {0} \cup Threads

\* ------------------------------------------------------------- properties
InPipeline == entry \in {"main", "assistant"}

\* the texts passed to stream_callback, in order
RECURSIVE ChunkTexts(_)
ChunkTexts(log) == IF log = <<>> THEN <<>> ELSE <<Head(log).text>> \o ChunkTexts(Tail(log))

LastAttempt == IF attemptLog = <<>> THEN "none" ELSE attemptLog[Len(attemptLog)]

AllTimedOut == attemptLog = [i \in 1..max_retries |-> "timeout"]

\* C1: when an ask call with a stream callback has returned the model's
\* answer, the chunks passed to the callback, concatenated in order, are
\* exactly the characters the service delivered (whitespace included).
C1_ChunksReproduceOutput ==
    (hasCallback /\ askPc = "returned" /\ LastAttempt = "ok")
        => Concat(ChunkTexts(emitted)) = full_response

\* C2: when every attempt of the language-model call timed out, the
\* interaction surfaces the timeout message after 3 attempts and speak_async
\* is never invoked.
C2_TimeoutSkipsNarration ==
    (InPipeline /\ AllTimedOut)
        => /\ speakPc = "idle"
           /\ genCalls = max_retries
           /\ pc = "returned" => result.answer = TimeoutMessage

\* C3: over one ask call, retries included, no chunk of the answer (the text
\* at one offset of the answer) is passed to the stream callback twice.
C3_NoChunkEmittedTwice ==
    \A i, j \in DOMAIN emitted :
        (emitted[i].offset = emitted[j].offset /\ emitted[i].text = emitted[j].text)
            => i = j

\* C4: whenever ask_question_async returns the timeout message, exactly
\* max_retries invocations of client.generate were made during the call.
C4_TimeoutAfterMaxRetries ==
    (askPc = "returned" /\ askRet = TimeoutMessage) => genCalls = max_retries

C4_Witness ==
    /\ askPc = "returned"
    /\ askRet = TimeoutMessage
    /\ genCalls = max_retries
    /\ attemptLog = <<"error", "empty", "timeout">>

AnswerFailed ==
    \/ askPc = "raised"
    \/ askPc = "returned" /\ askRet \in {TimeoutMessage, ErrorMessage, <<>>}

NarrationFailed == speakPc = "returned" /\ ~speakRet

\* C5: a returned interaction in which a stage failed has success=false and
\* a failure reason in its error list, and the stages after the failed one
\* were skipped (a failed answer stage leaves the narrator untouched).
C5_FailureSkipsLaterStages ==
    (InPipeline /\ pc = "returned") =>
        /\ recordOutcome # "data" =>
               ~result.success /\ result.errors # <<>> /\ askPc = "idle" /\ speakPc = "idle"
        /\ AnswerFailed =>
               ~result.success /\ result.errors # <<>> /\ speakPc = "idle"
        /\ NarrationFailed =>
               ~result.success /\ result.errors # <<>>

\* C6: when the interaction returns, the temporary .wav file created by
\* record_audio_async no longer exists, whatever the outcome was.
C6_NoWavOutlivesInteraction ==
    (InPipeline /\ pc = "returned") => WavFile \notin fs

NoServiceFailure ==
    /\ recordOutcome = "data"
    /\ IsValidQuestion(result.question)
    /\ \A i \in DOMAIN attemptLog : attemptLog[i] = "ok"
    /\ ~NarrationFailed

\* C7: started by main() with the PDF missing, an interaction whose
\* recording, transcription, generation and narration do not fail returns
\* success=true with a non-empty answer.
C7_MissingPdfDegradesGracefully ==
    (entry = "main" /\ ~pdfExists /\ pc = "returned" /\ NoServiceFailure)
        => result.success /\ Truthy(result.answer)

\* C8: narration overlaps generation: in the step that first hands text to
\* the narrator the language-model stream is still running.
C8_NarrationOverlapsGeneration ==
    [][(InPipeline /\ speakPc = "idle" /\ speakPc' # "idle") => askPc' = "streaming"]_vars

\* C9: after a speak call that returned true, once more than its cleanup
\* delay has passed the temp audio file it created no longer exists, for
\* speak_async, speak_sync and speak_streamed_text alike.
C9_TempFileGoneAfterDelay ==
    (speakPc = "returned" /\ speakRet /\ elapsed > cleanup_delay) => Mp3File \notin fs

\* C10: if the transcription of what the engine yielded is empty or shorter
\* than 3 characters, the interaction returns success=false with exactly the
\* error "No valid question transcribed" and client.generate was never invoked.
C10_InvalidQuestionAborts ==
    (InPipeline /\ pc = "returned" /\ recordOutcome = "data"
        /\ Len(Transcription(engineResult)) < 3)
        => /\ ~result.success
           /\ result.errors = <<"No valid question transcribed">>
           /\ askPc = "idle"
           /\ genCalls = 0

C10_Witness ==
    /\ InPipeline
    /\ pc = "returned"
    /\ engineResult = <<" ", "a", "b", " ">>
    /\ result.question = <<"a", "b">>
    /\ result.errors = <<"No valid question transcribed">>
    /\ genCalls = 0

\* C11: an interaction in which recording, transcription, generation and
\* narration all succeeded returns success=true, its question is the
\* transcribed text, its answer is non-empty and the temp .wav file is gone.
C11_SuccessfulInteraction ==
    (InPipeline /\ pc = "returned" /\ recordOutcome = "data"
        /\ IsValidQuestion(Transcription(engineResult))
        /\ askPc = "returned" /\ LastAttempt = "ok"
        /\ speakPc = "returned" /\ speakRet)
        => /\ result.success
           /\ result.question = Transcription(engineResult)
           /\ Truthy(result.answer)
           /\ result.answer = Strip(full_response)
           /\ WavFile \notin fs

C11_Witness ==
    /\ InPipeline
    /\ pc = "returned"
    /\ engineResult = <<" ", "a", "b", "c">>
    /\ result.question = <<"a", "b", "c">>
    /\ LastAttempt = "ok"
    /\ speakRet
    /\ result.success
    /\ WavFile \notin fs

\* C12: the trace of an ask call follows Idle -> Streaming -> {Completed |
\* TimedOut -> Retrying -> (Streaming | Exhausted)} -> Done: a further
\* attempt starts only out of the backoff sleep that follows a timed-out or
\* failed attempt, and the call ends only with the answer of a completed
\* attempt or after max_retries failed attempts.
C12_AskStateMachine ==
    [][/\ (genCalls' = genCalls + 1 /\ genCalls > 0)
              => (askPc = "sleeping" /\ LastAttempt \in {"timeout", "error"})
       /\ (askPc # "returned" /\ askPc' = "returned")
              => (LastAttempt' = "ok" \/ Len(attemptLog') = max_retries)]_vars

\* C19: no exception crosses a component boundary: ask_question_async (a
\* context of None included) ends by returning a value, never by raising
\* into its caller.
C19_NoExceptionCrossesBoundary ==
    askPc # "raised"

C14_BlankTextIsNoOp ==
    (speakPc # "idle" /\ Strip(speakText) = <<>>)
        => /\ speakPc \in {"call", "returned"}
           /\ speakPc = "returned" => ~speakRet
           /\ fs = {}
           /\ temp_files = <<>>
           /\ cleanupTask = <<>>

C14_Witness ==
    /\ speakPc = "returned"
    /\ speakText = <<" ">>
    /\ ~speakRet
    /\ fs = {}

PromptBuilt == askPc \in {"built", "streaming", "sleeping", "returned"}

\* C15: for a context longer than 4000 characters the prompt holds exactly
\* its first 4000 characters followed by the marker "..." and no further
\* context character; a context of at most 4000 characters appears unchanged
\* and without marker.
C15_ContextTruncation ==
    PromptBuilt =>
        /\ prompt.question = AskQuestion
        /\ IF Len(context) > 4000
              THEN /\ Len(prompt.context) = 4000 + 3
                   /\ \A i \in 1..4000 : prompt.context[i] = context[i]
                   /\ \A i \in 4001..4003 : prompt.context[i] = "."
              ELSE prompt.context = context

C15_Witness ==
    /\ entry = "_build_prompt"
    /\ askPc = "built"
    /\ Len(context) = 4001
    /\ Len(prompt.context) = 4003
    /\ prompt.context[4000] = context[4000]
    /\ prompt.context[4001] = "."

\* a step in which transcribe_audio_async runs to its return
TranscribeStep ==
    \/ pc = "transcribing" /\ pc' # "transcribing"
    \/ legacyCalls' = legacyCalls + 1 /\ lastCall' = "transcribe_audio"

\* C13 as claimed: when transcribe_audio_async has returned, the input file
\* it was given no longer exists, whatever path it was given (the legacy
\* transcribe_audio(filename) with a caller-chosen name included).
C13_InputFileAlwaysDeleted ==
    [][TranscribeStep => audio_file' \notin fs']_vars

\* C13 as amended: on every exit path transcribe_audio_async removes the
\* input file if it lies in the temp directory (as the file made by
\* record_audio_async does), and leaves every other file, a caller-chosen
\* input file outside the temp directory included, as it was.
C13_TempInputFileDeleted ==
    [][TranscribeStep =>
          fs' = IF audio_file' = WavFile THEN fs \ {WavFile} ELSE fs]_vars

C13_Witness ==
    /\ entry = "legacy_audio"
    /\ lastCall = "transcribe_audio"
    /\ legacyCalls = 2
    /\ loadCalls = 1
    /\ audio_file = WavFile
    /\ engineResult = None
    /\ WavFile \notin fs

AllThreadsDone == \A t \in Threads : threads[t].pc = "done"

\* C17: when two pool threads read the model property while the model is not
\* loaded, whisper.load_model is invoked exactly once and both threads get
\* the same model object, under every interleaving.
C17_ModelLoadedOnce ==
    entry = "model" =>
        /\ loadCalls <= 1
        /\ AllThreadsDone =>
               /\ loadCalls = 1
               /\ _model # NoModel
               /\ \A t \in Threads : threads[t].ret = _model

C17_Witness ==
    /\ entry = "model"
    /\ AllThreadsDone
    /\ {threads[t].path : t \in Threads} = {"loaded", "found"}
    /\ threads[1].ret = threads[2].ret

\* C18: over any sequence of transcriptions in one process, the calls of the
\* legacy wrappers transcribe_audio and record_audio included, the
\* speech-recognition model is loaded at most once.
C18_ModelLoadedOncePerProcess ==
    loadCalls <= 1

\* the chunks among the items got before the end signal that are not blank
RECURSIVE ChunksToNarrate(_)
ChunksToNarrate(items) ==
    IF items = <<>> \/ Head(items) = None THEN <<>>
    ELSE IF Strip(Head(items)) = <<>> THEN ChunksToNarrate(Tail(items))
    ELSE <<Head(items)>> \o ChunksToNarrate(Tail(items))

\* C16: speak_streaming_async takes the chunks in the order they were
\* enqueued and narrates them in that order, and it dequeues the next item
\* only when the speak of the chunk before has returned (synthesis and
\* playback over).
C16_StreamOrderNoOverlap ==
    [][/\ dequeued' \o queue' \o plan' = dequeued \o queue \o plan
       /\ narrated' = ChunksToNarrate(dequeued')
       /\ Len(dequeued') > Len(dequeued) => speakPc \in {"idle", "returned"}
       /\ (speakPc' = "call" /\ streamPc' = "speaking")
              => speakText' = narrated'[Len(narrated')]]_vars

C16_Witness ==
    /\ entry = "speak_streaming_async"
    /\ narrated = << <<"a", ".">>, <<"b", ".">> >>
    /\ Len(dequeued) = 3
    /\ streamPc = "speaking"
    /\ speakPc = "playing"
    /\ Len(cleanupTask) = 2

\* C25: within one interaction the stages run in strict sequence:
\* transcription starts only when recording has returned a file, the
\* language-model call starts only when transcription has returned a valid
\* question, and narration starts only when the answer stage has returned.
C25_StagesInStrictSequence ==
    [][InPipeline =>
          /\ (pc # "transcribing" /\ pc' = "transcribing")
                 => /\ pc = "recording"
                    /\ recordOutcome' = "data"
                    /\ audio_file' = WavFile
                    /\ WavFile \in fs'
          /\ (askPc # "call" /\ askPc' = "call")
                 => /\ pc = "transcribing" /\ pc' = "asking"
                    /\ result'.question = Transcription(engineResult')
                    /\ Len(result'.question) >= 3
          /\ genCalls' > genCalls => (pc = "asking" /\ speakPc = "idle")
          /\ (speakPc # "call" /\ speakPc' = "call")
                 => /\ pc = "asking" /\ pc' = "speaking"
                    /\ askPc = "returned"
                    /\ speakText' = askRet
          /\ speakPc \in {"call", "synthesizing", "playing"}
                 => (pc = "speaking" /\ askPc = "returned")]_vars

C25_Witness ==
    /\ InPipeline
    /\ pc = "speaking"
    /\ speakPc = "playing"
    /\ recordOutcome = "data"
    /\ askPc = "returned"
    /\ "gemma" \in result.timing
    /\ speakText = result.answer
    /\ result.answer = <<"a">>

\* the token appended to full_response by the step
AppendedToken == SubSeq(full_response', Len(full_response) + 1, Len(full_response'))

\* the step invokes stream_callback once, with this text
CallbackInvokedWith(text) ==
    /\ Len(emitted') = Len(emitted) + 1
    /\ SubSeq(emitted', 1, Len(emitted)) = emitted
    /\ emitted'[Len(emitted')].text = text

\* C26: with a stream callback, whenever the buffer holds '.', '!' or '?'
\* after a token was appended, the (stripped) buffer is passed to the
\* callback and the buffer is reset to empty, and when the stream ends a
\* remaining non-whitespace buffer is passed as a final chunk; so the buffer
\* never holds a sentence terminator after a token was processed and the
\* callback never gets an empty or whitespace-only chunk.
C26_BufferFlush ==
    /\ [](hasCallback =>
            /\ \A i \in DOMAIN buffer : buffer[i] \notin {".", "!", "?"}
            /\ \A i \in DOMAIN emitted : Strip(emitted[i].text) # <<>>)
    /\ [][hasCallback =>
            /\ (tokensLeft' < tokensLeft /\ full_response' # full_response)
                   => LET buf == buffer \o AppendedToken IN
                      IF \E i \in DOMAIN buf : buf[i] \in {".", "!", "?"}
                         THEN CallbackInvokedWith(Strip(buf)) /\ buffer' = <<>>
                         ELSE emitted' = emitted /\ buffer' = buf
            /\ (Len(attemptLog') > Len(attemptLog) /\ LastAttempt' \in {"ok", "empty"})
                   => IF Strip(buffer) # <<>>
                         THEN CallbackInvokedWith(Strip(buffer))
                         ELSE emitted' = emitted]_vars

C26_Witness ==
    /\ hasCallback
    /\ askPc = "returned"
    /\ full_response = <<"a", ".", " ", "b">>
    /\ ChunkTexts(emitted) = << <<"a", ".">>, <<"b">> >>
    /\ buffer = <<" ", "b">>

C30_ResultShape ==
    (InPipeline /\ pc = "returned") =>
        IF result.success
           THEN /\ result.errors = <<>>
                /\ {"recording", "transcription", "gemma", "speech", "total"}
                       \subseteq result.timing
           ELSE result.errors # <<>>

C30_Witness ==
    /\ InPipeline
    /\ pc = "returned"
    /\ ~result.success
    /\ result.errors = <<"No answer received from Gemma">>
    /\ result.timing = {"recording", "transcription", "gemma"}
    /\ attemptLog = <<"empty", "empty", "empty">>

\* C28: whatever the service does, one ask call invokes client.generate at
\* most max_retries times and sleeps at most max_retries - 1 times, invokes
\* nothing more once an attempt gave a non-empty response, and comes to an
\* end.
C28_BoundedAttemptsAndTermination ==
    /\ [](genCalls <= 3 /\ sleeps <= 2 /\ Len(attemptLog) <= 3)
    /\ [][LastAttempt = "ok" => (genCalls' = genCalls /\ sleeps' = sleeps /\ askPc' = "returned")]_vars
    /\ (askPc = "call") ~> (askPc \in {"returned", "raised"})

C28_Witness ==
    /\ askPc = "returned"
    /\ attemptLog = <<"timeout", "error", "ok">>
    /\ genCalls = 3
    /\ sleeps = 2

\* C27: speak_streaming_async returns in the step that dequeues the end
\* signal and in no other step (a poll timeout on the empty queue never ends
\* it); once it has returned nothing more is dequeued or spoken, so no chunk
\* put after the end signal is narrated; and once the end signal is in the
\* queue the consumer eventually returns.
C27_SentinelEndsConsumer ==
    /\ [][/\ (streamPc # "returned" /\ streamPc' = "returned")
                 => (queue # <<>> /\ Head(queue) = None /\ dequeued' = Append(dequeued, None))
          /\ (Len(dequeued') > Len(dequeued) /\ dequeued'[Len(dequeued')] = None)
                 => streamPc' = "returned"
          /\ streamPc = "returned"
                 => UNCHANGED <<streamPc, dequeued, narrated, speakPc, speakText>>]_vars
    /\ [](\A i \in DOMAIN narrated : narrated[i] # None)
    /\ [](\A i \in DOMAIN dequeued : dequeued[i] = None => i = Len(dequeued))
    /\ (\E i \in DOMAIN queue : queue[i] = None) ~> (streamPc = "returned")

C27_Witness ==
    /\ streamPc = "returned"
    /\ dequeued = << <<"a", ".">>, None >>
    /\ narrated = << <<"a", ".">> >>
    /\ queue = << <<"b", ".">> >>
    /\ speakPc = "returned"
    /\ elapsed > 0

\* C22: document-source errors never reach the core as exceptions: in every
\* call context, the construction of the assistant inside the running event
\* loop of main() included, extract_text returns text or "" and does not
\* raise (so the construction never fails on it).
C22_ExtractTextNeverRaises ==
    pc # "setup_failed"

\* C24: health_check ends by returning a boolean, whatever the service does
\* (a response, an empty response, an exception, no answer within the probe
\* timeout), and it returns true only if the service gave a non-empty
\* response.
C24_HealthCheckReturnsBoolean ==
    (entry = "health_check" /\ healthPc # "call") =>
        /\ healthPc = "returned"
        /\ healthRet \in BOOLEAN
        /\ healthRet => (probe.kind = "responds" /\ probe.text # None /\ Len(probe.text) > 0)
        /\ probe.kind \in {"raises", "timeout"} => ~healthRet

C24_Witness ==
    /\ healthPc = "returned"
    /\ probe.kind = "timeout"
    /\ healthRet = FALSE

\* C23: the interactive loop calls process_question_async again exactly when
\* the operator's input, trimmed and lower-cased, is 'y', and leaves the loop
\* on any other input; every call starts from a fresh result (success=false,
\* empty question, answer, timing and errors); and no step changes the
\* context the assistant holds.
C23_LoopIterations ==
    [][/\ entry = "main" =>
            /\ iterations' # iterations
                   => /\ pc = "returned" /\ pc' = "start"
                      /\ iterations' = iterations + 1
                      /\ continue_choice' \in {<<"y">>, <<"Y">>, <<" ", "y">>}
            /\ (pc # "exited" /\ pc' = "exited")
                   => /\ pc = "returned"
                      /\ continue_choice' \in {<<"n">>, <<>>, <<"y", "e", "s">>}
            /\ (pc = "start" /\ pc' # "start")
                   => result' = [success |-> FALSE, question |-> <<>>, answer |-> <<>>,
                                 timing |-> {}, errors |-> <<>>]
       /\ context' = context]_vars

C23_Witness ==
    /\ entry = "main"
    /\ iterations = 2
    /\ continue_choice = <<"Y">>
    /\ pc = "recording"
    /\ engineResult = <<"a", "b", "c">>
    /\ result.question = <<>>
    /\ result.errors = <<>>

\* C21: an interrupt that arrives while an interaction is recording,
\* transcribing, generating or narrating aborts the interaction with the
\* temp audio files of the interaction removed (as a failure at that point
\* would remove them), and the loop is left: no further iteration starts and
\* no result is produced.
C21_InterruptCleansUpAndExits ==
    [][entry = "main" =>
          /\ (pc # "interrupted" /\ pc' = "interrupted")
                 => (WavFile \notin fs' /\ Mp3File \notin fs')
          /\ pc = "interrupted"
                 => UNCHANGED <<pc, iterations, result>>]_vars

\* C32: speak_streaming_async marks every item it dequeued as done exactly
\* once, the end signal included: whenever it waits for the next item or has
\* returned, the unfinished items of the queue are exactly the items still
\* in it, so that after its return a producer in queue.join() is released
\* once the queue is empty.
C32_EveryDequeuedItemDone ==
    streamPc \in {"get", "returned"} => unfinished = Len(queue)

\* the temp files this SpeechSynthesizer has created so far
TempPaths == {Mp3(i) : i \in DOMAIN cleanupTask}

\* C33: for non-blank text, speak_async returns true exactly when synthesis
\* produced an audio file and the playback process returned status 0; no
\* playback status exists when synthesis did not produce a file; and whenever
\* synthesis produced a file, the cleanup of that file has been scheduled as
\* a task or performed (file and list entry gone) when speak_async returns,
\* whatever the playback returned.
C33_SpeakResultAndCleanup ==
    /\ temp_audio_path \notin TempPaths => afplay_status = NoStatus
    /\ (speakPc = "returned" /\ ~IsBlankText(speakText))
           => /\ speakRet <=> (temp_audio_path \in TempPaths /\ afplay_status = 0)
              /\ temp_audio_path \in TempPaths
                     => /\ cleanupTask[temp_audio_path[2]] \in {"pending", "done", "cancelled"}
                        /\ cleanup_delay = 0
                               => /\ cleanupTask[temp_audio_path[2]] = "done"
                                  /\ temp_audio_path \notin fs
                                  /\ temp_audio_path \notin Range(temp_files)

\* speak_async returned False after a failed playback (status 1) of a
\* synthesized file, with the cleanup task of that file scheduled
C33_Witness ==
    /\ speakPc = "returned"
    /\ ~IsBlankText(speakText)
    /\ temp_audio_path \in TempPaths
    /\ afplay_status = 1
    /\ ~speakRet
    /\ cleanupTask[temp_audio_path[2]] = "pending"

\* C31: every temp audio file of the SpeechSynthesizer that exists on disk is
\* listed in _temp_files, the files left by a failed synthesis included,
\* through speak calls, delayed cleanups and closed loops; once cleanup() has
\* completed none of these files exists and _temp_files is empty.
C31_TempFilesTracked ==
    /\ \A f \in TempPaths : f \in fs => f \in Range(temp_files)
    /\ cleanupPc = "done" => (temp_files = <<>> /\ TempPaths \cap fs = {})

\* cleanup() has completed after a synthesis failed, whose file no cleanup
\* task was ever scheduled for
C31_Witness ==
    /\ cleanupPc = "done"
    /\ speakPc = "returned"
    /\ temp_audio_path = NoPath
    /\ cleanupTask[Len(cleanupTask)] = "none"

====
